---- MODULE Spec2Model ----
(***************************************************************************)
(* The tiered agent memory of agent_memory_system/memory_system.py:        *)
(* MemoryEntry, InMemoryStore, MemorySummarizer, MemoryRetriever and       *)
(* LongShortTermMemory, as a state machine.                                *)
(*                                                                         *)
(* Text is a sequence of one-character strings, so that lower(), split()   *)
(* and the substring test of search() are computed as the code computes    *)
(* them.  A dict is a sequence of entries in insertion order (Python dicts *)
(* iterate in insertion order; an overwrite keeps the key's position).     *)
(* time.time() is the integer clock `now`; uuid.uuid4() is the counter     *)
(* `nextId`.                                                               *)
(***************************************************************************)
EXTENDS Integers, Sequences, FiniteSets, TLC

VARIABLES
    st,                   \* short_term_store.memories: id -> entry, in insertion order
    lt,                   \* long_term_store.memories
    stIndex,              \* short_term_store.index: word -> list of ids
    ltIndex,              \* long_term_store.index
    short_term_capacity,  \* constructor argument
    long_term_capacity,   \* constructor argument
    current_session,      \* session token
    now,                  \* the clock read by time.time()
    nextId,               \* the next value uuid.uuid4() returns
    file,                 \* the document at the path used by save_to_file / load_from_file
    last,                 \* the last call: its name, arguments and return value
    threads,              \* the callers running InMemoryStore.add concurrently: entry, statement, words left
    simple                \* a SimpleMemorySystem: short_term_memories and long_term_memories

vars == <<st, lt, stIndex, ltIndex, short_term_capacity, long_term_capacity,
          current_session, now, nextId, file, last, threads, simple>>

-----------------------------------------------------------------------------
(* Bounds of the model *)

MaxId == 5          \* uuid4 values drawn in one behaviour
MaxAccess == 1      \* get() calls seen by the entries a store holds

-----------------------------------------------------------------------------
(* Enums *)

MemoryType == {"SHORT_TERM", "LONG_TERM", "WORKING", "EPISODIC", "SEMANTIC", "PROCEDURAL"}

MemoryTypeValue(m) ==
    CASE m = "SHORT_TERM" -> "short_term"
      [] m = "LONG_TERM"  -> "long_term"
      [] m = "WORKING"    -> "working"
      [] m = "EPISODIC"   -> "episodic"
      [] m = "SEMANTIC"   -> "semantic"
      [] m = "PROCEDURAL" -> "procedural"

MemoryPriority == {"LOW", "MEDIUM", "HIGH", "CRITICAL"}

PriorityValue(p) ==
    CASE p = "LOW"      -> 1
      [] p = "MEDIUM"   -> 2
      [] p = "HIGH"     -> 3
      [] p = "CRITICAL" -> 4

-----------------------------------------------------------------------------
(* Text: str.lower, str.split, `in`, join *)

Lower(ch) ==
    CASE ch = "A" -> "a"
      [] ch = "B" -> "b"
      [] ch = "S" -> "s"
      [] OTHER    -> ch

LowerStr(s) == [i \in 1..Len(s) |-> Lower(s[i])]

\* needle in hay
Contains(hay, needle) ==
    \E i \in 0..(Len(hay) - Len(needle)) :
        \A j \in 1..Len(needle) : hay[i + j] = needle[j]

\* text.split(): the maximal runs of non-blank characters, in order
RECURSIVE SplitFrom(_, _, _)
SplitFrom(s, i, word) ==
    IF i > Len(s)
    THEN IF word = <<>> THEN <<>> ELSE <<word>>
    ELSE IF s[i] = " "
         THEN (IF word = <<>> THEN <<>> ELSE <<word>>) \o SplitFrom(s, i + 1, <<>>)
         ELSE SplitFrom(s, i + 1, Append(word, s[i]))

Split(s) == SplitFrom(s, 1, <<>>)

Range(s) == {s[i] : i \in 1..Len(s)}

\* sep.join(parts)
RECURSIVE Join(_, _)
Join(parts, sep) ==
    IF parts = <<>> THEN <<>>
    ELSE IF Len(parts) = 1 THEN parts[1]
    ELSE parts[1] \o sep \o Join(Tail(parts), sep)

\* str(n) for 0 <= n < 100
Digit(d) == <<"0", "1", "2", "3", "4", "5", "6", "7", "8", "9">>[d + 1]

Str(n) == IF n < 10 THEN <<Digit(n)>> ELSE <<Digit(n \div 10), Digit(n % 10)>>

-----------------------------------------------------------------------------
(* list.sort: stable; with reverse=True equal elements also keep their order *)

LexLess(a, b) ==
    \E i \in 1..Len(a) : a[i] < b[i] /\ \A j \in 1..(i - 1) : a[j] = b[j]

\* the list s sorted by keys k (k[i] is the key of s[i]), ascending, stable
SortAsc(s, k) ==
    LET n == Len(s)
        before(i) == {j \in 1..n : LexLess(k[j], k[i]) \/ (k[j] = k[i] /\ j < i)}
    IN  [p \in 1..n |-> s[CHOOSE i \in 1..n : Cardinality(before(i)) = p - 1]]

\* the same with reverse=True
SortDesc(s, k) ==
    LET n == Len(s)
        before(i) == {j \in 1..n : LexLess(k[i], k[j]) \/ (k[j] = k[i] /\ j < i)}
    IN  [p \in 1..n |-> s[CHOOSE i \in 1..n : Cardinality(before(i)) = p - 1]]

\* s[:n] for n >= 0
Take(s, n) == SubSeq(s, 1, IF n < Len(s) THEN n ELSE Len(s))

-----------------------------------------------------------------------------
(* MemoryEntry *)

NewEntryWithoutPostInit(id, content, memory_type, priority, timestamp, access_count, last_accessed, context, tags) ==
    [id            |-> id,
     content       |-> content,
     memory_type   |-> memory_type,
     priority      |-> priority,
     timestamp     |-> timestamp,
     access_count  |-> access_count,
     last_accessed |-> last_accessed,
     context       |-> context,
     tags          |-> tags]

\* the dataclass constructor followed by __post_init__. None and the empty
\* dict (list) are both the empty function <<>>: the code treats them alike
\* (`context or {...}`, `tags or []`, `if self.context is None`).
\* embedding and summary are never set and are left out.
NewEntry(id, content, memory_type, priority, timestamp, access_count, last_accessed, context, tags) ==
    [id            |-> id,
     content       |-> content,
     memory_type   |-> memory_type,
     priority      |-> priority,
     timestamp     |-> timestamp,
     access_count  |-> access_count,
     last_accessed |-> IF last_accessed = 0 THEN timestamp ELSE last_accessed,
     context       |-> context,
     tags          |-> tags]

-----------------------------------------------------------------------------
(* InMemoryStore *)

Ids(mem) == {mem[i].id : i \in 1..Len(mem)}

Lookup(mem, id) == mem[CHOOSE i \in 1..Len(mem) : mem[i].id = id]

\* self.memories[entry.id] = entry
DictSet(mem, entry) ==
    IF entry.id \in Ids(mem)
    THEN [i \in 1..Len(mem) |-> IF mem[i].id = entry.id THEN entry ELSE mem[i]]
    ELSE Append(mem, entry)

\* _update_index
UpdateIndexAlwaysAppending(index, entry) ==
    LET words == Range(Split(LowerStr(entry.content)))
        old(w) == IF w \in DOMAIN index THEN index[w] ELSE <<>>
    IN  [w \in (DOMAIN index) \cup words |->
            IF w \in words THEN Append(old(w), entry.id) ELSE old(w)]

UpdateIndex(index, entry) ==
    LET words == Range(Split(LowerStr(entry.content)))
        old(w) == IF w \in DOMAIN index THEN index[w] ELSE <<>>
    IN  [w \in (DOMAIN index) \cup words |->
            IF w \in words /\ entry.id \notin Range(old(w))
            THEN Append(old(w), entry.id)
            ELSE old(w)]

\* add: the new memories dict; the new index is UpdateIndex
StoreAdd(mem, entry) == DictSet(mem, entry)

StoreDeleteUpTo(mem, id) == SelectSeq(mem, LAMBDA e : e.id > id)

\* delete: the new memories dict (the index is left alone)
StoreDelete(mem, id) == SelectSeq(mem, LAMBDA e : e.id # id)

RECURSIVE StoreDeleteAll(_, _)
StoreDeleteAll(mem, ids) ==
    IF ids = <<>> THEN mem
    ELSE StoreDeleteAll(StoreDelete(mem, Head(ids)), Tail(ids))

TouchedWithoutClock(e, t) == [e EXCEPT !.access_count = @ + 1]

\* get: the entry after the access bookkeeping
Touched(e, t) == [e EXCEPT !.access_count = @ + 1, !.last_accessed = t]

SearchMatchesCaseSensitive(e, query) ==
    \/ Contains(e.content, query)
    \/ \E i \in 1..Len(e.tags) : Contains(e.tags[i], query)

SearchMatches(e, query) ==
    LET q == LowerStr(query)
    IN  \/ Contains(LowerStr(e.content), q)
        \/ \E i \in 1..Len(e.tags) : Contains(LowerStr(e.tags[i]), q)

SearchKey(e) == <<PriorityValue(e.priority), e.access_count>>

\* search(query, limit)
Search(mem, query, limit) ==
    LET results == SelectSeq(mem, LAMBDA e : SearchMatches(e, query))
        keys    == [i \in 1..Len(results) |-> SearchKey(results[i])]
    IN  Take(SortDesc(results, keys), limit)

-----------------------------------------------------------------------------
(* LongShortTermMemory: capacity managers *)

ShortTermEvictKeyOldestFirst(e) == <<e.timestamp, PriorityValue(e.priority)>>

ShortTermEvictKey(e) == <<PriorityValue(e.priority), e.timestamp>>

ManageShortTermCapacityOffByOne(mem, capacity) ==
    IF Len(mem) > capacity + 1
    THEN LET memories  == SortAsc(mem, [i \in 1..Len(mem) |-> ShortTermEvictKey(mem[i])])
             to_remove == Take(memories, Len(memories) - capacity - 1)
         IN  StoreDeleteAll(mem, [i \in 1..Len(to_remove) |-> to_remove[i].id])
    ELSE mem

\* _manage_short_term_capacity
ManageShortTermCapacity(mem, capacity) ==
    IF Len(mem) > capacity
    THEN LET memories  == SortAsc(mem, [i \in 1..Len(mem) |-> ShortTermEvictKey(mem[i])])
             to_remove == Take(memories, Len(memories) - capacity)
         IN  StoreDeleteAll(mem, [i \in 1..Len(to_remove) |-> to_remove[i].id])
    ELSE mem

LongTermEvictKeyNoAccess(e) == <<PriorityValue(e.priority), e.timestamp>>

LongTermEvictKey(e) == <<PriorityValue(e.priority), e.access_count, e.timestamp>>

\* _manage_long_term_capacity
ManageLongTermCapacity(mem, capacity) ==
    IF Len(mem) > capacity
    THEN LET memories  == SortAsc(mem, [i \in 1..Len(mem) |-> LongTermEvictKey(mem[i])])
             to_remove == Take(memories, Len(memories) - capacity)
         IN  StoreDeleteAll(mem, [i \in 1..Len(to_remove) |-> to_remove[i].id])
    ELSE mem

-----------------------------------------------------------------------------
(* MemorySummarizer *)

MaxLength == 500

\* text.split(sep) for a non-empty separator: empty pieces are kept
RECURSIVE SplitSepFrom(_, _, _, _)
SplitSepFrom(s, sep, i, piece) ==
    IF i > Len(s) THEN <<piece>>
    ELSE IF i + Len(sep) - 1 <= Len(s) /\ SubSeq(s, i, i + Len(sep) - 1) = sep
         THEN <<piece>> \o SplitSepFrom(s, sep, i + Len(sep), <<>>)
         ELSE SplitSepFrom(s, sep, i + 1, Append(piece, s[i]))

SplitSep(s, sep) == SplitSepFrom(s, sep, 1, <<>>)

SummarizeWithoutLengthTest(content, max_length) ==
    LET sentences == SplitSep(content, <<".", " ">>)
    IN  IF Len(sentences) <= 2 THEN content
        ELSE sentences[1] \o <<".", " ", "[", ".", ".", ".", "]", " ">>
             \o sentences[Len(sentences)] \o <<".">>

\* summarize
Summarize(content, max_length) ==
    IF Len(content) <= max_length THEN content
    ELSE LET sentences == SplitSep(content, <<".", " ">>)
         IN  IF Len(sentences) <= 2 THEN content
             ELSE sentences[1] \o <<".", " ", "[", ".", ".", ".", "]", " ">>
                  \o sentences[Len(sentences)] \o <<".">>

SessionKeyOneGroup(e) == "default"

\* memory.context.get('session', 'default')
SessionKey(e) ==
    IF "session" \in DOMAIN e.context THEN e.context["session"] ELSE "default"

\* the keys of `groups`, in the order the loop creates them
RECURSIVE GroupKeys(_, _)
GroupKeys(memories, seen) ==
    IF memories = <<>> THEN <<>>
    ELSE LET k == SessionKey(Head(memories))
         IN  IF k \in seen THEN GroupKeys(Tail(memories), seen)
             ELSE <<k>> \o GroupKeys(Tail(memories), seen \cup {k})

SummaryContent(group_memories, max_length) ==
    <<"S", "u", "m", "m", "a", "r", "y", " ", "o", "f", " ">>
    \o Str(Len(group_memories))
    \o <<" ", "m", "e", "m", "o", "r", "i", "e", "s", ":", " ">>
    \o Summarize(Join([i \in 1..Len(group_memories) |-> group_memories[i].content],
                      <<" ", "|", " ">>), max_length)

SummaryEntry(group_memories, context_key, id, t, max_length) ==
    NewEntry(id, SummaryContent(group_memories, max_length), "LONG_TERM", "MEDIUM",
             t, 0, 0, [k \in {"session", "compressed"} |->
                          IF k = "session" THEN context_key ELSE "True"], <<>>)

\* how many members of a group are kept beside its summary
KeptPerGroup == 2

\* one pass of the loop over groups.items(); id is the next uuid4 value
RECURSIVE CompressGroups(_, _, _, _, _)
CompressGroups(keys, memories, id, t, max_length) ==
    IF keys = <<>> THEN <<>>
    ELSE LET group_memories == SelectSeq(memories, LAMBDA m : SessionKey(m) = Head(keys))
         IN  IF Len(group_memories) > 3
             THEN <<SummaryEntry(group_memories, Head(keys), id, t, max_length)>>
                  \o Take(SortDesc(group_memories,
                                   [i \in 1..Len(group_memories) |->
                                       <<PriorityValue(group_memories[i].priority)>>]),
                          KeptPerGroup)
                  \o CompressGroups(Tail(keys), memories, id + 1, t, max_length)
             ELSE group_memories
                  \o CompressGroups(Tail(keys), memories, id, t, max_length)

\* compress_memories; id is the next uuid4 value, t the clock
CompressMemories(memories, id, t, max_length) ==
    IF Len(memories) <= 3 THEN memories
    ELSE CompressGroups(GroupKeys(memories, {}), memories, id, t, max_length)

\* the uuid4 values compress_memories draws: one per summary entry
NumSummaries(memories) ==
    IF Len(memories) <= 3 THEN 0
    ELSE Cardinality({k \in Range(GroupKeys(memories, {})) :
                         Len(SelectSeq(memories, LAMBDA m : SessionKey(m) = k)) > 3})

-----------------------------------------------------------------------------
(* MemoryRetriever *)

DecayPeriod == 3    \* 30 * 24 * 60 * 60 seconds, in clock ticks of ten days
FrequencyCap == 10

Max(a, b) == IF a > b THEN a ELSE b
Min(a, b) == IF a < b THEN a ELSE b

\* the pairs k, v of `context` with k in memory.context and memory.context[k] == v
ContextMatch(memory, context) ==
    Cardinality({k \in DOMAIN context :
                    k \in DOMAIN memory.context /\ memory.context[k] = context[k]})

\* _calculate_relevance_score at clock t, times 100 * DecayPeriod (an exact
\* integer: 0.3, 0.2, 0.2, 0.1, 0.2 become 30, 20, 20, 10, 20)
RelevanceScore(query, memory, context, t) ==
    LET query_words   == Range(Split(LowerStr(query)))
        content_words == Range(Split(LowerStr(memory.content)))
        word_overlap  == Cardinality(query_words \cap content_words)
        age           == t - memory.timestamp
    IN  word_overlap * 30 * DecayPeriod
        + PriorityValue(memory.priority) * 20 * DecayPeriod
        + Max(0, DecayPeriod - age) * 20
        + Min(FrequencyCap, memory.access_count) * DecayPeriod
        + (IF context # <<>> /\ memory.context # <<>>
           THEN ContextMatch(memory, context) * 20 * DecayPeriod ELSE 0)

CandidatesNotDoubled(mem, query, limit) == Search(mem, query, limit)

\* the candidates retrieve_relevant scores
Candidates(mem, query, limit) == Search(mem, query, limit * 2)

\* retrieve_relevant(query, context, limit) on the store `mem` at clock t
RetrieveRelevant(mem, query, context, limit, t) ==
    LET candidates == Candidates(mem, query, limit)
        scores == [i \in 1..Len(candidates) |->
                      <<RelevanceScore(query, candidates[i], context, t)>>]
    IN  Take(SortDesc(candidates, scores), limit)

-----------------------------------------------------------------------------
(* LongShortTermMemory: queries.  A result is a list of references to the  *)
(* stores' entries: each element names the store it was read from.         *)

Ref(store, mem) == [i \in 1..Len(mem) |-> [store |-> store, entry |-> mem[i]]]

ShortTermResultsNotHalved(query, limit) == Search(st, query, limit)

\* the short-term candidates of retrieve_memories
ShortTermResults(query, limit) == Search(st, query, limit \div 2)

\* retrieve_memories(query, include_short_term, limit) at clock t
RetrieveMemories(query, include_short_term, limit, t) ==
    LET long_term_memories == Ref("long_term", RetrieveRelevant(lt, query, <<>>, limit, t))
        memories == long_term_memories \o
                    (IF include_short_term
                     THEN Ref("short_term", ShortTermResults(query, limit))
                     ELSE <<>>)
        keys == [i \in 1..Len(memories) |-> SearchKey(memories[i].entry)]
    IN  Take(SortDesc(memories, keys), limit)

\* get_recent_memories(limit)
GetRecentMemories(limit) ==
    LET all_memories == Ref("short_term", st) \o Ref("long_term", lt)
        keys == [i \in 1..Len(all_memories) |-> <<all_memories[i].entry.timestamp>>]
    IN  Take(SortDesc(all_memories, keys), limit)

-----------------------------------------------------------------------------
(* Persistence *)

\* the path holds no file; a file holding the document doc is <<doc>>
NoFile == <<>>

Fields == {"id", "content", "memory_type", "priority", "timestamp", "access_count",
           "last_accessed", "context", "tags"}

RequiredFields == {"id", "content", "memory_type", "priority", "timestamp"}

\* to_dict
ToDict(e) ==
    [e EXCEPT !.memory_type = MemoryTypeValue(e.memory_type),
              !.priority = PriorityValue(e.priority)]

\* MemoryType(value), MemoryPriority(value): the member with that value
MemoryTypeOf(v) == CHOOSE m \in MemoryType : MemoryTypeValue(m) = v
MemoryPriorityOf(v) == CHOOSE p \in MemoryPriority : PriorityValue(p) = v

\* from_dict raises: KeyError or ValueError on the enums, TypeError from cls(**data)
FromDictRaises(d) ==
    \/ ~ (RequiredFields \subseteq DOMAIN d)
    \/ ~ (DOMAIN d \subseteq Fields)
    \/ d.memory_type \notin {MemoryTypeValue(m) : m \in MemoryType}
    \/ d.priority \notin {PriorityValue(p) : p \in MemoryPriority}

FromDictWithoutBookkeeping(d) ==
    NewEntry(d.id, d.content, MemoryTypeOf(d.memory_type), MemoryPriorityOf(d.priority),
             d.timestamp, 0, 0,
             IF "context" \in DOMAIN d THEN d.context ELSE <<>>,
             IF "tags" \in DOMAIN d THEN d.tags ELSE <<>>)

\* from_dict
FromDict(d) ==
    NewEntry(d.id, d.content, MemoryTypeOf(d.memory_type), MemoryPriorityOf(d.priority),
             d.timestamp,
             IF "access_count" \in DOMAIN d THEN d.access_count ELSE 0,
             IF "last_accessed" \in DOMAIN d THEN d.last_accessed ELSE 0,
             IF "context" \in DOMAIN d THEN d.context ELSE <<>>,
             IF "tags" \in DOMAIN d THEN d.tags ELSE <<>>)

\* the document save_to_file writes
SaveDoc(short, long, session) ==
    [short_term      |-> [i \in 1..Len(short) |-> ToDict(short[i])],
     long_term       |-> [i \in 1..Len(long) |-> ToDict(long[i])],
     current_session |-> session]

RECURSIVE LoadListSkipping(_, _)
LoadListSkipping(store, dicts) ==
    IF dicts = <<>> THEN store
    ELSE IF FromDictRaises(Head(dicts)) THEN LoadListSkipping(store, Tail(dicts))
    ELSE LoadListSkipping([memories |-> StoreAdd(store.memories, FromDict(Head(dicts))),
                           index    |-> UpdateIndex(store.index, FromDict(Head(dicts))),
                           raised   |-> FALSE],
                          Tail(dicts))

\* one `for mem_data in ...: store.add(MemoryEntry.from_dict(mem_data))` loop,
\* stopped by the first from_dict that raises
RECURSIVE LoadList(_, _)
LoadList(store, dicts) ==
    IF store.raised \/ dicts = <<>> THEN store
    ELSE IF FromDictRaises(Head(dicts)) THEN [store EXCEPT !.raised = TRUE]
    ELSE LoadList([memories |-> StoreAdd(store.memories, FromDict(Head(dicts))),
                   index    |-> UpdateIndex(store.index, FromDict(Head(dicts))),
                   raised   |-> FALSE],
                  Tail(dicts))

\* load_from_file of the document doc into an instance whose stores and session
\* are short/shortIndex, long/longIndex and session
Load(short, shortIndex, long, longIndex, session, doc) ==
    LET s == LoadList([memories |-> short, index |-> shortIndex, raised |-> FALSE],
                      doc.short_term)
        l == LoadList([memories |-> long, index |-> longIndex, raised |-> s.raised],
                      doc.long_term)
    IN  [st |-> s.memories, stIndex |-> s.index, lt |-> l.memories, ltIndex |-> l.index,
         current_session |-> IF l.raised THEN session ELSE doc.current_session,
         raised |-> l.raised]

-----------------------------------------------------------------------------
(* The state machine *)

\* str(uuid.uuid4()) as a session token
SessionToken(n) == <<"u1", "u2", "u3", "u4", "u5", "u6", "u7", "u8", "u9", "u10",
                     "u11", "u12", "u13", "u14", "u15", "u16", "u17", "u18", "u19",
                     "u20", "u21", "u22", "u23", "u24", "u25", "u26", "u27", "u28">>[n]

\* the record of a call: what was called, with what (for add_memory: the entry it
\* built), what it returned, and what each store held when it was called
Call(op, args, ret) ==
    [op |-> op, args |-> args, ret |-> ret, before |-> [st |-> st, lt |-> lt]]

\* LongShortTermMemory(short_term_capacity, long_term_capacity) in a new process
InitWith(short_cap, long_cap) ==
    /\ st = <<>>
    /\ lt = <<>>
    /\ stIndex = <<>>
    /\ ltIndex = <<>>
    /\ short_term_capacity = short_cap
    /\ long_term_capacity = long_cap
    /\ current_session = SessionToken(1)
    /\ now = 1
    /\ nextId = 2
    /\ file = NoFile
    /\ threads = <<>>
    /\ simple = [short_term_memories |-> <<>>, long_term_memories |-> <<>>,
                 session_id |-> <<"s", "e", "s", "s", "i", "o", "n", "_">> \o Str(0)]
    /\ last = [op |-> "__init__", args |-> <<>>, ret |-> <<>>,
               before |-> [st |-> <<>>, lt |-> <<>>]]

\* the entry add_memory builds at clock t
AddedEntry(content, memory_type, priority, context, tags, t) ==
    NewEntry(nextId, content, memory_type, priority, t, 0, 0,
             IF context = <<>> THEN [k \in {"session"} |-> current_session] ELSE context,
             tags)

AddMemoryBothManagers(content, memory_type, priority, context, tags, dt) ==
    LET entry == AddedEntry(content, memory_type, priority, context, tags, now + dt)
    IN  /\ IF memory_type = "SHORT_TERM"
           THEN /\ st' = ManageShortTermCapacity(StoreAdd(st, entry), short_term_capacity)
                /\ stIndex' = UpdateIndex(stIndex, entry)
                /\ lt' = ManageLongTermCapacity(lt, long_term_capacity)
                /\ UNCHANGED ltIndex
           ELSE /\ lt' = ManageLongTermCapacity(StoreAdd(lt, entry), long_term_capacity)
                /\ ltIndex' = UpdateIndex(ltIndex, entry)
                /\ st' = ManageShortTermCapacity(st, short_term_capacity)
                /\ UNCHANGED stIndex
        /\ now' = now + dt
        /\ nextId' = nextId + 1
        /\ last' = Call("add_memory", entry, entry.id)
        /\ UNCHANGED <<threads, simple, short_term_capacity, long_term_capacity, current_session, file>>

\* add_memory; dt is the time that passed since the last clock reading
AddMemory(content, memory_type, priority, context, tags, dt) ==
    LET entry == AddedEntry(content, memory_type, priority, context, tags, now + dt)
    IN  /\ IF memory_type = "SHORT_TERM"
           THEN /\ st' = ManageShortTermCapacity(StoreAdd(st, entry), short_term_capacity)
                /\ stIndex' = UpdateIndex(stIndex, entry)
                /\ UNCHANGED <<lt, ltIndex>>
           ELSE /\ lt' = ManageLongTermCapacity(StoreAdd(lt, entry), long_term_capacity)
                /\ ltIndex' = UpdateIndex(ltIndex, entry)
                /\ UNCHANGED <<st, stIndex>>
        /\ now' = now + dt
        /\ nextId' = nextId + 1
        /\ last' = Call("add_memory", entry, entry.id)
        /\ UNCHANGED <<threads, simple, short_term_capacity, long_term_capacity, current_session, file>>

\* InMemoryStore.get on the short-term or the long-term store
StoreGet(store, memory_id, dt) ==
    LET mem == IF store = "short_term" THEN st ELSE lt
        got == IF memory_id \in Ids(mem)
               THEN Touched(Lookup(mem, memory_id), now + dt) ELSE <<>>
     IN /\ IF memory_id \in Ids(mem)
           THEN /\ now' = now + dt
                /\ IF store = "short_term"
                   THEN st' = DictSet(st, got) /\ lt' = lt
                   ELSE lt' = DictSet(lt, got) /\ st' = st
           ELSE UNCHANGED <<st, lt, now>>
        /\ last' = Call("get", <<store, memory_id>>, got)
        /\ UNCHANGED <<threads, simple, stIndex, ltIndex, short_term_capacity, long_term_capacity,
                       current_session, nextId, file>>

\* InMemoryStore.search on the short-term or the long-term store
StoreSearchCall(store, query, limit) ==
    /\ last' = Call("search", <<store, query, limit>>,
                    Search(IF store = "short_term" THEN st ELSE lt, query, limit))
    /\ UNCHANGED <<threads, simple, st, lt, stIndex, ltIndex, short_term_capacity, long_term_capacity,
                   current_session, now, nextId, file>>

\* InMemoryStore.delete on the short-term or the long-term store
StoreDeleteCall(store, memory_id) ==
    /\ IF store = "short_term"
       THEN st' = StoreDelete(st, memory_id) /\ lt' = lt
       ELSE lt' = StoreDelete(lt, memory_id) /\ st' = st
    /\ last' = Call("delete", <<store, memory_id>>,
                    memory_id \in Ids(IF store = "short_term" THEN st ELSE lt))
    /\ UNCHANGED <<threads, simple, stIndex, ltIndex, short_term_capacity, long_term_capacity,
                   current_session, now, nextId, file>>

\* summarizer.compress_memories(memories) called on its own
CompressMemoriesCall(memories) ==
    /\ last' = Call("compress_memories", memories,
                    CompressMemories(memories, nextId, now, MaxLength))
    /\ nextId' = nextId + NumSummaries(memories)
    /\ UNCHANGED <<threads, simple, st, lt, stIndex, ltIndex, short_term_capacity, long_term_capacity,
                   current_session, now, file>>

\* MemorySummarizer(max_length).summarize(content)
SummarizeCall(content, max_length) ==
    /\ last' = Call("summarize", <<content, max_length>>, Summarize(content, max_length))
    /\ UNCHANGED <<threads, simple, st, lt, stIndex, ltIndex, short_term_capacity, long_term_capacity,
                   current_session, now, nextId, file>>

ConsolidationTriggeredAtBatchSize(mem, capacity) == Len(mem) * 10 > capacity * 3

\* the trigger of consolidate_memories
ConsolidationTriggered(mem, capacity) == Len(mem) * 10 > capacity * 8

ConsolidationBatchRoundedUp(capacity) == (capacity * 3 + 9) \div 10

\* int(self.short_term_capacity * 0.3)
ConsolidationBatch(capacity) == (capacity * 3) \div 10

\* the entries consolidate_memories hands to compress_memories
ToConsolidate(mem, capacity) ==
    Take(SortAsc(mem, [i \in 1..Len(mem) |-> <<mem[i].timestamp>>]),
         ConsolidationBatch(capacity))

\* the loop `for memory in compressed` of consolidate_memories
RECURSIVE MoveToLongTerm(_, _)
MoveToLongTerm(s, compressed) ==
    IF compressed = <<>> THEN s
    ELSE LET memory == [Head(compressed) EXCEPT !.memory_type = "LONG_TERM"]
         IN  MoveToLongTerm([st      |-> StoreDelete(s.st, memory.id),
                             lt      |-> StoreAdd(s.lt, memory),
                             ltIndex |-> UpdateIndex(s.ltIndex, memory)],
                            Tail(compressed))

ConsolidateMemoriesDeletingBatch ==
    /\ IF ConsolidationTriggered(st, short_term_capacity)
       THEN LET to_consolidate == ToConsolidate(st, short_term_capacity)
                compressed == CompressMemories(to_consolidate, nextId, now, MaxLength)
                s == MoveToLongTerm([st |-> st, lt |-> lt, ltIndex |-> ltIndex], compressed)
            IN  /\ st' = StoreDeleteAll(s.st, [i \in 1..Len(to_consolidate) |->
                                                  to_consolidate[i].id])
                /\ lt' = s.lt
                /\ ltIndex' = s.ltIndex
                /\ nextId' = nextId + NumSummaries(to_consolidate)
                /\ last' = Call("consolidate_memories", to_consolidate, "triggered")
       ELSE /\ UNCHANGED <<st, lt, ltIndex, nextId>>
            /\ last' = Call("consolidate_memories", <<>>, "skipped")
    /\ UNCHANGED <<threads, simple, stIndex, short_term_capacity, long_term_capacity, current_session,
                   now, file>>

\* consolidate_memories; the call record names the entries handed to
\* compress_memories
ConsolidateMemories ==
    /\ IF ConsolidationTriggered(st, short_term_capacity)
       THEN LET to_consolidate == ToConsolidate(st, short_term_capacity)
                compressed == CompressMemories(to_consolidate, nextId, now, MaxLength)
                s == MoveToLongTerm([st |-> st, lt |-> lt, ltIndex |-> ltIndex], compressed)
            IN  /\ st' = s.st
                /\ lt' = s.lt
                /\ ltIndex' = s.ltIndex
                /\ nextId' = nextId + NumSummaries(to_consolidate)
                /\ last' = Call("consolidate_memories", to_consolidate, "triggered")
       ELSE /\ UNCHANGED <<st, lt, ltIndex, nextId>>
            /\ last' = Call("consolidate_memories", <<>>, "skipped")
    /\ UNCHANGED <<threads, simple, stIndex, short_term_capacity, long_term_capacity, current_session,
                   now, file>>

RetrieveMemoriesCallFetching(query, include_short_term, limit) ==
    LET result == RetrieveMemories(query, include_short_term, limit, now)
        fetched(store, mem) ==
            [i \in 1..Len(mem) |->
                IF [store |-> store, entry |-> mem[i]] \in Range(result)
                THEN Touched(mem[i], now) ELSE mem[i]]
    IN  /\ last' = Call("retrieve_memories", <<query, include_short_term, limit>>, result)
        /\ st' = fetched("short_term", st)
        /\ lt' = fetched("long_term", lt)
        /\ UNCHANGED <<threads, simple, stIndex, ltIndex, short_term_capacity, long_term_capacity,
                       current_session, now, nextId, file>>

\* retrieve_memories
RetrieveMemoriesCall(query, include_short_term, limit) ==
    /\ last' = Call("retrieve_memories", <<query, include_short_term, limit>>,
                    RetrieveMemories(query, include_short_term, limit, now))
    /\ UNCHANGED <<threads, simple, st, lt, stIndex, ltIndex, short_term_capacity, long_term_capacity,
                   current_session, now, nextId, file>>

RetrieveRelevantCallCountingAccess(query, context, limit) ==
    LET result == RetrieveRelevant(lt, query, context, limit, now)
    IN  /\ last' = Call("retrieve_relevant", <<query, context, limit>>, result)
        /\ lt' = [i \in 1..Len(lt) |->
                     IF lt[i] \in Range(result) THEN Touched(lt[i], now) ELSE lt[i]]
        /\ UNCHANGED <<threads, simple, st, stIndex, ltIndex, short_term_capacity, long_term_capacity,
                       current_session, now, nextId, file>>

\* retriever.retrieve_relevant (the retriever is bound to the long-term store)
RetrieveRelevantCall(query, context, limit) ==
    /\ last' = Call("retrieve_relevant", <<query, context, limit>>,
                    RetrieveRelevant(lt, query, context, limit, now))
    /\ UNCHANGED <<threads, simple, st, lt, stIndex, ltIndex, short_term_capacity, long_term_capacity,
                   current_session, now, nextId, file>>

\* get_recent_memories
GetRecentMemoriesCall(limit) ==
    /\ last' = Call("get_recent_memories", <<limit>>, GetRecentMemories(limit))
    /\ UNCHANGED <<threads, simple, st, lt, stIndex, ltIndex, short_term_capacity, long_term_capacity,
                   current_session, now, nextId, file>>

\* save_to_file
SaveToFile ==
    /\ file' = <<SaveDoc(st, lt, current_session)>>
    /\ last' = Call("save_to_file", <<>>, <<>>)
    /\ UNCHANGED <<threads, simple, st, lt, stIndex, ltIndex, short_term_capacity, long_term_capacity,
                   current_session, now, nextId>>

LoadFromFileStartingEmpty ==
    /\ IF file = NoFile
       THEN /\ st' = <<>> /\ lt' = <<>>
            /\ UNCHANGED <<stIndex, ltIndex, current_session>>
            /\ last' = Call("load_from_file", <<>>, "FileNotFound")
       ELSE LET s == Load(st, stIndex, lt, ltIndex, current_session, file[1])
            IN  /\ st' = s.st
                /\ stIndex' = s.stIndex
                /\ lt' = s.lt
                /\ ltIndex' = s.ltIndex
                /\ current_session' = s.current_session
                /\ last' = Call("load_from_file", <<>>, IF s.raised THEN "raised" ELSE "ok")
    /\ UNCHANGED <<threads, simple, short_term_capacity, long_term_capacity, now, nextId, file>>

\* load_from_file: FileNotFoundError is caught, any other error leaves the
\* method with what was loaded so far
LoadFromFile ==
    /\ IF file = NoFile
       THEN /\ UNCHANGED <<st, lt, stIndex, ltIndex, current_session>>
            /\ last' = Call("load_from_file", <<>>, "FileNotFound")
       ELSE LET s == Load(st, stIndex, lt, ltIndex, current_session, file[1])
            IN  /\ st' = s.st
                /\ stIndex' = s.stIndex
                /\ lt' = s.lt
                /\ ltIndex' = s.ltIndex
                /\ current_session' = s.current_session
                /\ last' = Call("load_from_file", <<>>, IF s.raised THEN "raised" ELSE "ok")
    /\ UNCHANGED <<threads, simple, short_term_capacity, long_term_capacity, now, nextId, file>>

\* the ways a persisted entry can be malformed
Damages == {"unknown_memory_type", "unknown_priority", "no_id", "no_content",
            "no_memory_type", "no_priority", "no_timestamp"}

\* the persisted entry d, damaged
Damaged(d, damage) ==
    LET without(f) == [k \in (DOMAIN d) \ {f} |-> d[k]]
    IN  CASE damage = "unknown_memory_type" -> [d EXCEPT !.memory_type = "bogus"]
          [] damage = "unknown_priority"    -> [d EXCEPT !.priority = 9]
          [] damage = "no_id"               -> without("id")
          [] damage = "no_content"          -> without("content")
          [] damage = "no_memory_type"      -> without("memory_type")
          [] damage = "no_priority"         -> without("priority")
          [] damage = "no_timestamp"        -> without("timestamp")

\* something outside the program rewrites one entry of the persisted document
DamageFile(list, i, damage) ==
    /\ file # NoFile
    /\ i \in 1..Len(file[1][list])
    /\ file' = <<[file[1] EXCEPT ![list][i] = Damaged(@, damage)]>>
    /\ last' = Call("damage_file", <<list, i, damage>>, <<>>)
    /\ UNCHANGED <<threads, simple, st, lt, stIndex, ltIndex, short_term_capacity, long_term_capacity,
                   current_session, now, nextId>>

\* the process ends and a new one constructs LongShortTermMemory with the same
\* capacities; the file stays
Construct ==
    /\ st' = <<>>
    /\ lt' = <<>>
    /\ stIndex' = <<>>
    /\ ltIndex' = <<>>
    /\ current_session' = SessionToken(nextId)
    /\ nextId' = nextId + 1
    /\ last' = Call("__init__", <<>>, <<>>)
    /\ UNCHANGED <<threads, simple, short_term_capacity, long_term_capacity, now, file>>

-----------------------------------------------------------------------------
(* InMemoryStore.add run by concurrent callers, one statement at a time *)

\* a caller about to run add(entry); exclusive: its host wraps add in a mutex
Thread(entry, exclusive) ==
    [entry |-> entry, pc |-> "memories", words |-> <<>>, exclusive |-> exclusive]

\* the caller is between the first and the last statement of add
Inside(t) == t.pc \notin {"memories", "done"}

AddStatementAlwaysCreating(t, memories, index) ==
    LET word == Head(t.words)
        next == [t EXCEPT !.pc = "for", !.words = Tail(t.words)]
        at(pc) == [t EXCEPT !.pc = pc]
        same(t2) == [t |-> t2, memories |-> memories, index |-> index]
    IN  CASE t.pc = "memories" ->
               [t |-> at("words"), memories |-> StoreAdd(memories, t.entry), index |-> index]
          [] t.pc = "words" ->
               same([t EXCEPT !.pc = "for", !.words = Split(LowerStr(t.entry.content))])
          [] t.pc = "for" ->
               same(IF t.words = <<>> THEN at("return") ELSE at("if_word"))
          [] t.pc = "if_word" ->
               same(at("new_list"))
          [] t.pc = "new_list" ->
               [t |-> at("if_id"), memories |-> memories,
                index |-> [w \in (DOMAIN index) \cup {word} |->
                              IF w = word THEN <<>> ELSE index[w]]]
          [] t.pc = "if_id" ->
               same(IF t.entry.id \notin Range(index[word]) THEN at("append") ELSE next)
          [] t.pc = "append" ->
               [t |-> next, memories |-> memories,
                index |-> [index EXCEPT ![word] = Append(@, t.entry.id)]]
          [] t.pc = "return" ->
               same(at("done"))

\* one statement of add and of the _update_index it calls, run by caller t:
\* the caller, the memories dict and the index after it
AddStatement(t, memories, index) ==
    LET word == Head(t.words)
        next == [t EXCEPT !.pc = "for", !.words = Tail(t.words)]
        at(pc) == [t EXCEPT !.pc = pc]
        same(t2) == [t |-> t2, memories |-> memories, index |-> index]
    IN  CASE t.pc = "memories" ->
               [t |-> at("words"), memories |-> StoreAdd(memories, t.entry), index |-> index]
          [] t.pc = "words" ->
               same([t EXCEPT !.pc = "for", !.words = Split(LowerStr(t.entry.content))])
          [] t.pc = "for" ->
               same(IF t.words = <<>> THEN at("return") ELSE at("if_word"))
          [] t.pc = "if_word" ->
               same(IF word \notin DOMAIN index THEN at("new_list") ELSE at("if_id"))
          [] t.pc = "new_list" ->
               [t |-> at("if_id"), memories |-> memories,
                index |-> [w \in (DOMAIN index) \cup {word} |->
                              IF w = word THEN <<>> ELSE index[w]]]
          [] t.pc = "if_id" ->
               same(IF t.entry.id \notin Range(index[word]) THEN at("append") ELSE next)
          [] t.pc = "append" ->
               [t |-> next, memories |-> memories,
                index |-> [index EXCEPT ![word] = Append(@, t.entry.id)]]
          [] t.pc = "return" ->
               same(at("done"))

\* two callers are handed one entry each for the short-term store
StartThreads(exclusive, content1, content2) ==
    LET entry(id, content) ==
            NewEntry(id, content, "SHORT_TERM", "MEDIUM", now, 0, 0, <<>>, <<>>)
    IN  /\ threads = <<>>
        /\ threads' = <<Thread(entry(nextId, content1), exclusive),
                        Thread(entry(nextId + 1, content2), exclusive)>>
        /\ nextId' = nextId + 2
        /\ last' = Call("start", <<exclusive, content1, content2>>, <<>>)
        /\ UNCHANGED <<st, lt, stIndex, ltIndex, short_term_capacity, long_term_capacity,
                       current_session, now, file, simple>>

\* caller i runs its next statement; under a mutex only while no other caller
\* is inside add
ThreadStatement(i) ==
    /\ i \in 1..Len(threads)
    /\ threads[i].pc # "done"
    /\ threads[i].exclusive =>
          \A j \in 1..Len(threads) : j # i => ~ Inside(threads[j])
    /\ LET s == AddStatement(threads[i], st, stIndex)
       IN  /\ threads' = [threads EXCEPT ![i] = s.t]
           /\ st' = s.memories
           /\ stIndex' = s.index
           /\ last' = Call("add", <<threads[i].entry.id, threads[i].pc>>, s.t.pc = "done")
    /\ UNCHANGED <<lt, ltIndex, short_term_capacity, long_term_capacity,
                   current_session, now, nextId, file, simple>>

-----------------------------------------------------------------------------
(* SimpleMemorySystem and SimpleMemoryAgent (simple_demo.py); the clock `now` *)
(* counts milliseconds there                                                 *)

\* f"mem_{int(time.time() * 1000)}"
SimpleId(t) == <<"m", "e", "m", "_">> \o Str(t)

\* add_memory at clock t: the system after it (the id returned is SimpleId(t))
SimpleAdd(sys, content, memory_type, priority, context, tags, t) ==
    LET entry == NewEntry(SimpleId(t), content, memory_type, priority, t, 0, 0, context, tags)
    IN  IF memory_type = "SHORT_TERM"
        THEN [sys EXCEPT !.short_term_memories = DictSet(@, entry)]
        ELSE [sys EXCEPT !.long_term_memories = DictSet(@, entry)]

\* {**a, **b}
RECURSIVE DictUpdate(_, _)
DictUpdate(a, b) ==
    IF b = <<>> THEN a ELSE DictUpdate(DictSet(a, Head(b)), Tail(b))

\* search_memories: every matching entry is appended twice
SimpleSearchMemories(sys, query, limit) ==
    LET all_memories == DictUpdate(sys.short_term_memories, sys.long_term_memories)
        matches == SelectSeq(all_memories,
                             LAMBDA m : Contains(LowerStr(m.content), LowerStr(query)))
        results == [i \in 1..(2 * Len(matches)) |-> matches[(i + 1) \div 2]]
        keys == [i \in 1..Len(results) |->
                    <<PriorityValue(results[i].priority), results[i].timestamp>>]
    IN  Take(SortDesc(results, keys), limit)

SimpleThreshold == 5
SimpleMoved == 2

\* consolidate_memories
SimpleConsolidate(sys) ==
    IF Len(sys.short_term_memories) > SimpleThreshold
    THEN LET short_term_list ==
                 SortAsc(sys.short_term_memories,
                         [i \in 1..Len(sys.short_term_memories) |->
                             <<sys.short_term_memories[i].timestamp>>])
             moved == Take(short_term_list, SimpleMoved)
             relabelled == [i \in 1..Len(moved) |->
                               [moved[i] EXCEPT !.memory_type = "LONG_TERM"]]
         IN  [sys EXCEPT
                 !.long_term_memories = DictUpdate(@, relabelled),
                 !.short_term_memories =
                     SelectSeq(@, LAMBDA m : m.id \notin Ids(moved))]
    ELSE sys

\* text.replace(old, "")
RECURSIVE Removed(_, _)
Removed(text, old) ==
    IF Len(text) < Len(old) THEN text
    ELSE IF SubSeq(text, 1, Len(old)) = old
         THEN Removed(SubSeq(text, Len(old) + 1, Len(text)), old)
         ELSE <<Head(text)>> \o Removed(Tail(text), old)

StatesPreference(message) ==
    \/ Contains(LowerStr(message), <<"i", " ", "l", "i", "k", "e">>)
    \/ Contains(LowerStr(message), <<"i", " ", "p", "r", "e", "f", "e", "r">>)
    \/ Contains(LowerStr(message), <<"i", " ", "e", "n", "j", "o", "y">>)

\* _generate_response for a message that neither gives nor asks for a name and
\* does not ask for the preferences: the text returned
GenerateResponse(message, relevant_memories) ==
    IF StatesPreference(message)
    THEN <<"I", "'", "l", "l", " ", "r", "e", "m", "e", "m", "b", "e", "r", " ",
        "t", "h", "a", "t", " ", "y", "o", "u", " ">>
         \o Removed(LowerStr(message), <<"i", " ">>) \o <<"!">>
    ELSE IF relevant_memories # <<>>
    THEN <<"I", " ", "u", "n", "d", "e", "r", "s", "t", "a", "n", "d", " ", "y",
        "o", "u", "r", " ", "m", "e", "s", "s", "a", "g", "e", " ", "a", "b",
        "o", "u", "t", " ", "'">>
         \o message \o <<"'", " ", "(", "I", " ", "f", "o", "u", "n", "d", " ">> \o Str(Len(relevant_memories))
         \o <<" ", "r", "e", "l", "e", "v", "a", "n", "t", " ", "m", "e", "m", "o",
        "r", "i", "e", "s", ")", ".", " ", "H", "o", "w", " ", "c", "a", "n",
        " ", "I", " ", "h", "e", "l", "p", " ", "y", "o", "u", " ", "f", "u",
        "r", "t", "h", "e", "r", "?">>
    ELSE <<"I", " ", "h", "e", "a", "r", " ", "y", "o", "u", " ", "s", "a", "y",
        "i", "n", "g", " ", "'">> \o message
         \o <<"'", ".", " ", "T", "h", "i", "s", " ", "i", "s", " ", "t", "h", "e",
        " ", "f", "i", "r", "s", "t", " ", "t", "i", "m", "e", " ", "w", "e",
        "'", "v", "e", " ", "d", "i", "s", "c", "u", "s", "s", "e", "d", " ",
        "t", "h", "i", "s", " ", "t", "o", "p", "i", "c", ".">>

MessageContext(type) ==
    [k \in {"user_id", "type"} |-> IF k = "user_id" THEN "anonymous" ELSE type]

\* SimpleMemorySystem.add_memory, dt milliseconds after the last call
SimpleAddMemory(content, memory_type, priority, dt) ==
    /\ simple' = SimpleAdd(simple, content, memory_type, priority, <<>>, <<>>, now + dt)
    /\ now' = now + dt
    /\ last' = Call("SimpleMemorySystem.add_memory", <<content, memory_type, priority>>,
                    SimpleId(now + dt))
    /\ UNCHANGED <<st, lt, stIndex, ltIndex, short_term_capacity, long_term_capacity,
                   current_session, nextId, file, threads>>

\* SimpleMemoryAgent.process_message; its add_memory calls read the clock at
\* t1, t2 and t3
ProcessMessage(message, dt1, dt2, dt3) ==
    LET t1 == now + dt1
        t2 == t1 + dt2
        t3 == t2 + dt3
        relevant_memories == SimpleSearchMemories(simple, message, 3)
        stored == SimpleAdd(simple, <<"U", "s", "e", "r", ":", " ">> \o message, "SHORT_TERM",
                            "MEDIUM", MessageContext("user_message"), <<>>, t1)
        noted == IF StatesPreference(message)
                 THEN SimpleAdd(stored, <<"U", "s", "e", "r", " ", "p", "r", "e", "f", "e", "r", "e", "n", "c",
        "e", ":", " ">>
                                \o message, "LONG_TERM", "HIGH",
                                MessageContext("preference"),
                                <<<<"p", "r", "e", "f", "e", "r", "e", "n", "c", "e">>, <<"u", "s", "e", "r">>>>, t2)
                 ELSE stored
        response == GenerateResponse(message, relevant_memories)
        answered == SimpleAdd(noted, <<"A", "g", "e", "n", "t", ":", " ">> \o response, "SHORT_TERM",
                              "MEDIUM", MessageContext("agent_response"), <<>>, t3)
    IN  /\ simple' = SimpleConsolidate(answered)
        /\ now' = t3
        /\ last' = Call("process_message", <<message>>, response)
        /\ UNCHANGED <<st, lt, stIndex, ltIndex, short_term_capacity, long_term_capacity,
                       current_session, nextId, file, threads>>

-----------------------------------------------------------------------------
(* Inputs *)

Queries == {<<"a">>, <<"B">>}
Limits == {1, 2}
Explicit == [k \in {"session"} |-> "s1"]

\* the get() calls the entries of a store have seen
RECURSIVE TotalAccess(_)
TotalAccess(mem) ==
    IF mem = <<>> THEN 0 ELSE Head(mem).access_count + TotalAccess(Tail(mem))

-----------------------------------------------------------------------------
(* Spec: the life of one memory: add, get, consolidate, save, a new process, *)
(* load                                                                      *)

ShortCap == 4
LongCap == 2

\* memory_type, priority, context, tags, dt
Inputs == {<<"SHORT_TERM", "MEDIUM", <<>>, <<>>, 1>>,
           <<"EPISODIC", "HIGH", Explicit, <<<<"T">>>>, 0>>}

Init == InitWith(ShortCap, LongCap)

Next ==
    \/ \E in \in Inputs :
          nextId <= MaxId /\ AddMemory(<<"A">>, in[1], in[2], in[3], in[4], in[5])
    \/ \E id \in 2..MaxId :
          /\ id \in Ids(lt)
          /\ TotalAccess(lt) < MaxAccess
          /\ StoreGet("long_term", id, 0)
    \/ ConsolidateMemories
    \/ SaveToFile
    \/ LoadFromFile
    \/ nextId <= MaxId /\ file # NoFile /\ Construct

Spec == Init /\ [][Next]_vars

-----------------------------------------------------------------------------
(* SpecAdd: add_memory and get alone, on stores that fill up quickly *)

AddShortCap == 2
AddLongCap == 2
AddMaxId == 4

InitAdd == InitWith(AddShortCap, AddLongCap)

NextAdd ==
    \/ \E m \in {"SHORT_TERM", "LONG_TERM"}, p \in {"LOW", "HIGH"}, dt \in {0, 1} :
          nextId <= AddMaxId /\ AddMemory(<<"A">>, m, p, <<>>, <<>>, dt)
    \/ \E id \in 2..AddMaxId :
          /\ id \in Ids(lt)
          /\ TotalAccess(lt) < MaxAccess
          /\ StoreGet("long_term", id, 0)

SpecAdd == InitAdd /\ [][NextAdd]_vars

-----------------------------------------------------------------------------
(* SpecBig: a short-term store large enough for consolidate_memories to hand   *)
(* more than three entries to compress_memories.  The first BigVaried calls    *)
(* of add_memory vary their arguments, the later ones use the defaults.        *)

BigShortCap == 14
BigLongCap == 3
BigMaxId == 13
BigVaried == 5

\* priority, context, dt
BigInputs == {<<"MEDIUM", <<>>, 1>>, <<"HIGH", <<>>, 1>>, <<"MEDIUM", Explicit, 1>>,
              <<"MEDIUM", <<>>, 0>>}

InitBig == InitWith(BigShortCap, BigLongCap)

NextBig ==
    \/ \E in \in BigInputs :
          /\ nextId <= BigVaried + 1
          /\ AddMemory(<<"A">>, "SHORT_TERM", in[1], in[2], <<>>, in[3])
    \/ /\ nextId > BigVaried + 1
       /\ nextId <= BigMaxId
       /\ AddMemory(<<"A">>, "SHORT_TERM", "MEDIUM", <<>>, <<>>, 1)
    \/ ConsolidateMemories

SpecBig == InitBig /\ [][NextBig]_vars

-----------------------------------------------------------------------------
(* SpecQuery: a few entries of both stores, fetched and queried *)

QueryShortCap == 2
QueryLongCap == 3
QueryMaxId == 3

\* content, memory_type, priority, context, dt
QueryInputs ==
    {<<<<"A", "b">>, "SHORT_TERM", "MEDIUM", <<>>, 1>>,
     <<<<"b", " ", "a">>, "SHORT_TERM", "MEDIUM", <<>>, 0>>,
     <<<<"A", "b">>, "LONG_TERM", "HIGH", <<>>, 1>>,
     <<<<"b", " ", "a">>, "SEMANTIC", "LOW", Explicit, 0>>}

InitQuery == InitWith(QueryShortCap, QueryLongCap)

NextQuery ==
    \/ \E in \in QueryInputs :
          nextId <= QueryMaxId /\ AddMemory(in[1], in[2], in[3], in[4], <<>>, in[5])
    \/ \E store \in {"short_term", "long_term"}, id \in 2..QueryMaxId :
          /\ id \in Ids(IF store = "short_term" THEN st ELSE lt)
          /\ TotalAccess(st) + TotalAccess(lt) < MaxAccess
          /\ StoreGet(store, id, 0)
    \/ \E q \in Queries, inc \in BOOLEAN, limit \in Limits :
          RetrieveMemoriesCall(q, inc, limit)
    \/ \E q \in Queries, context \in {<<>>, Explicit}, limit \in Limits :
          RetrieveRelevantCall(q, context, limit)

SpecQuery == InitQuery /\ [][NextQuery]_vars

-----------------------------------------------------------------------------
(* SpecStore: the InMemoryStore of short-term memory called directly: add    *)
(* through add_memory, then get, search and delete, on ids it holds and on   *)
(* ids it does not                                                           *)

StoreCap == 3
StoreMaxId == 4

\* content, priority, tags, dt
StoreInputs ==
    {<<<<"A", "b">>, "MEDIUM", <<>>, 1>>,
     <<<<"b">>, "HIGH", <<<<"x", "A">>>>, 0>>}

StoreQueries == {<<"a">>, <<"X">>}
StoreLimits == {0, 1, 3}

InitStore == InitWith(StoreCap, StoreCap)

NextStore ==
    \/ \E in \in StoreInputs :
          nextId <= StoreMaxId /\ AddMemory(in[1], "SHORT_TERM", in[2], <<>>, in[3], in[4])
    \/ \E id \in 2..(StoreMaxId + 1) :
          /\ id \in Ids(st) => TotalAccess(st) < MaxAccess
          /\ StoreGet("short_term", id, 0)
    \/ \E q \in StoreQueries, limit \in StoreLimits : StoreSearchCall("short_term", q, limit)
    \/ \E id \in 2..(StoreMaxId + 1) : StoreDeleteCall("short_term", id)

SpecStore == InitStore /\ [][NextStore]_vars

-----------------------------------------------------------------------------
(* SpecRoute: add_memory with every memory type, on stores that a load may   *)
(* have filled beyond their capacity                                         *)

RouteShortCap == 1
RouteLongCap == 1
RouteMaxId == 4

InitRoute == InitWith(RouteShortCap, RouteLongCap)

NextRoute ==
    \/ \E m \in MemoryType :
          nextId <= RouteMaxId /\ AddMemory(<<"A">>, m, "MEDIUM", <<>>, <<>>, 1)
    \/ SaveToFile
    \/ LoadFromFile

SpecRoute == InitRoute /\ [][NextRoute]_vars

-----------------------------------------------------------------------------
(* SpecCompress: compress_memories applied to lists of entries of up to three *)
(* session groups; each behaviour is one call on a new summarizer             *)

CompressMaxLen == 5

\* context, priority
CompressKinds ==
    {<<<<>>, "LOW">>, <<<<>>, "HIGH">>,
     <<[k \in {"session"} |-> "default"], "LOW">>,
     <<Explicit, "LOW">>, <<Explicit, "HIGH">>, <<Explicit, "CRITICAL">>}

\* the list of entries of the given kinds, with ids 11, 12, ...
CompressInput(kinds) ==
    [i \in 1..Len(kinds) |->
        NewEntry(10 + i, <<"A">>, "SHORT_TERM", kinds[i][2], 1, 0, 0, kinds[i][1], <<>>)]

InitCompress == InitWith(1, 1)

NextCompress ==
    /\ last.op = "__init__"
    /\ \E n \in 0..CompressMaxLen : \E kinds \in [1..n -> CompressKinds] :
          CompressMemoriesCall(CompressInput(kinds))

SpecCompress == InitCompress /\ [][NextCompress]_vars

-----------------------------------------------------------------------------
(* SpecSummarize: summarize applied to short texts of letters, full stops and *)
(* spaces, by summarizers of several max_length; each behaviour is one call   *)

SummarizeMaxText == 7
SummarizeShort == 4

SummarizeAlphabet == {"a", ".", " "}
SummarizeLengths == {0, SummarizeShort, MaxLength}

InitSummarize == InitWith(1, 1)

NextSummarize ==
    /\ last.op = "__init__"
    /\ \E n \in 0..SummarizeMaxText : \E content \in [1..n -> SummarizeAlphabet] :
          \E max_length \in SummarizeLengths : SummarizeCall(content, max_length)

SpecSummarize == InitSummarize /\ [][NextSummarize]_vars

-----------------------------------------------------------------------------
(* SpecLoad: load_from_file of documents that were damaged after the save *)

LoadCap == 2
LoadMaxId == 4

\* every persisted entry is one that from_dict accepts
WellFormed(doc) ==
    /\ \A i \in 1..Len(doc.short_term) : ~ FromDictRaises(doc.short_term[i])
    /\ \A i \in 1..Len(doc.long_term) : ~ FromDictRaises(doc.long_term[i])

InitLoad == InitWith(LoadCap, LoadCap)

NextLoad ==
    \/ \E m \in {"SHORT_TERM", "SEMANTIC"} :
          nextId <= LoadMaxId /\ AddMemory(<<"A">>, m, "MEDIUM", <<>>, <<>>, 1)
    \/ SaveToFile
    \/ \E list \in {"short_term", "long_term"}, i \in 1..(LoadMaxId - 1), damage \in Damages :
          /\ file # NoFile
          /\ WellFormed(file[1])
          /\ DamageFile(list, i, damage)
    \/ LoadFromFile

SpecLoad == InitLoad /\ [][NextLoad]_vars

-----------------------------------------------------------------------------
(* SpecInstance: one instance, of any short-term capacity from 1 up, that     *)
(* adds, consolidates, saves and loads the files it saved itself              *)

InstanceMaxCap == 4
InstanceLongCap == 2
InstanceMaxId == 5

InitInstance == \E cap \in 1..InstanceMaxCap : InitWith(cap, InstanceLongCap)

NextInstance ==
    \/ \E in \in Inputs :
          nextId <= InstanceMaxId /\ AddMemory(<<"A">>, in[1], in[2], in[3], in[4], in[5])
    \/ ConsolidateMemories
    \/ SaveToFile
    \/ LoadFromFile

SpecInstance == InitInstance /\ [][NextInstance]_vars

-----------------------------------------------------------------------------
(* SpecRead: the four query operations on stores that hold fetched and       *)
(* unfetched entries                                                         *)

ReadCap == 2
ReadMaxId == 3

\* content, memory_type, priority, dt
ReadInputs ==
    {<<<<"A", "b">>, "SHORT_TERM", "MEDIUM", 1>>,
     <<<<"b", " ", "a">>, "LONG_TERM", "HIGH", 1>>,
     <<<<"a">>, "SEMANTIC", "LOW", 0>>}

InitRead == InitWith(ReadCap, ReadCap)

NextRead ==
    \/ \E in \in ReadInputs :
          nextId <= ReadMaxId /\ AddMemory(in[1], in[2], in[3], <<>>, <<>>, in[4])
    \/ \E store \in {"short_term", "long_term"}, id \in 2..ReadMaxId :
          /\ id \in Ids(IF store = "short_term" THEN st ELSE lt)
          /\ TotalAccess(st) + TotalAccess(lt) < MaxAccess
          /\ StoreGet(store, id, 0)
    \/ \E store \in {"short_term", "long_term"}, limit \in Limits :
          StoreSearchCall(store, <<"a">>, limit)
    \/ \E limit \in Limits : RetrieveRelevantCall(<<"a">>, <<>>, limit)
    \/ \E inc \in BOOLEAN, limit \in Limits : RetrieveMemoriesCall(<<"a">>, inc, limit)
    \/ \E limit \in Limits : GetRecentMemoriesCall(limit)

SpecRead == InitRead /\ [][NextRead]_vars

-----------------------------------------------------------------------------
(* SpecIndex: one store under add, get, search and delete, and under a load  *)
(* that adds again what a delete removed                                     *)

IndexCap == 3
IndexMaxId == 3

\* content, priority, dt
IndexInputs ==
    {<<<<"A", "b">>, "MEDIUM", 1>>,
     <<<<"b", " ", "B", " ", "c">>, "HIGH", 0>>}

InitIndex == InitWith(IndexCap, IndexCap)

NextIndex ==
    \/ \E in \in IndexInputs :
          nextId <= IndexMaxId /\ AddMemory(in[1], "SHORT_TERM", in[2], <<>>, <<>>, in[3])
    \/ \E id \in 2..(IndexMaxId + 1) :
          /\ id \notin Ids(st) \/ TotalAccess(st) = 0
          /\ StoreGet("short_term", id, 0)
    \/ StoreSearchCall("short_term", <<"b">>, IndexCap)
    \/ \E id \in 2..(IndexMaxId + 1) : StoreDeleteCall("short_term", id)
    \/ SaveToFile
    \/ LoadFromFile

SpecIndex == InitIndex /\ [][NextIndex]_vars

-----------------------------------------------------------------------------
(* SpecRace: two callers of add on one store, with and without a mutex       *)

RaceContents == {<<"a">>, <<"A", " ", "b">>, <<"b">>}

InitRace == InitWith(ShortCap, LongCap)

NextRace ==
    \/ \E exclusive \in BOOLEAN, content1, content2 \in RaceContents :
          StartThreads(exclusive, content1, content2)
    \/ \E i \in {1, 2} : ThreadStatement(i)

SpecRace == InitRace /\ [][NextRace]_vars

-----------------------------------------------------------------------------
(* SpecSimple: a SimpleMemoryAgent and direct add_memory calls, with calls   *)
(* that fall into one millisecond and calls that do not                      *)

SimpleMaxNow == 7

SimpleMessages == {<<"h", "i">>, <<"i", " ", "l", "i", "k", "e", " ", "x">>}

SimpleInputs == {<<<<"y">>, "LONG_TERM", "HIGH">>}

InitSimple == InitWith(ShortCap, LongCap)

NextSimple ==
    \/ \E in \in SimpleInputs, dt \in {0, 1} :
          now + dt <= SimpleMaxNow /\ SimpleAddMemory(in[1], in[2], in[3], dt)
    \/ \E message \in SimpleMessages, dt3 \in {0, 1} :
          now + 1 + dt3 <= SimpleMaxNow /\ ProcessMessage(message, 1, 0, dt3)

SpecSimple == InitSimple /\ [][NextSimple]_vars

-----------------------------------------------------------------------------
(* Claims on add_memory and the capacity managers (SpecAdd) *)

IsAdd(memory_type_is_short) ==
    /\ last.op = "add_memory"
    /\ (last.args.memory_type = "SHORT_TERM") = memory_type_is_short

\* C1: over sequences of add_memory calls (and get) on a fresh instance, after
\* each call the short-term store holds at most short_term_capacity entries and
\* the long-term store at most long_term_capacity entries.
C1_CapacityInvariant ==
    /\ Len(st) <= short_term_capacity
    /\ Len(lt) <= long_term_capacity

\* an add_memory call on a full short-term store has returned
C1_Witness ==
    /\ IsAdd(TRUE)
    /\ Len(last.before.st) = short_term_capacity
    /\ Len(st) = short_term_capacity

\* what an add_memory call had to choose from, what it kept and what it evicted
Pool == IF last.args.memory_type = "SHORT_TERM"
        THEN Range(last.before.st) \cup {last.args}
        ELSE Range(last.before.lt) \cup {last.args}
Survivors == IF last.args.memory_type = "SHORT_TERM" THEN Range(st) ELSE Range(lt)
Evicted == Pool \ Survivors
Capacity == IF last.args.memory_type = "SHORT_TERM"
            THEN short_term_capacity ELSE long_term_capacity

\* (priority value, timestamp) of a is no greater than that of b
ShortKeyLeq(a, b) ==
    \/ PriorityValue(a.priority) < PriorityValue(b.priority)
    \/ /\ PriorityValue(a.priority) = PriorityValue(b.priority)
       /\ a.timestamp <= b.timestamp

\* C3: an add_memory call that brings the short-term store above its capacity
\* deletes exactly the excess, and every evicted entry's (priority value,
\* timestamp) is no greater than every survivor's; the survivors are unchanged;
\* among entries of one priority with distinct timestamps the earliest goes.
C3_ShortTermEvictionOrder ==
    IsAdd(TRUE) =>
        /\ Survivors \subseteq Pool
        /\ Cardinality(Pool) <= short_term_capacity => Evicted = {}
        /\ Cardinality(Pool) > short_term_capacity =>
              /\ Cardinality(Evicted) = Cardinality(Pool) - short_term_capacity
              /\ \A e \in Evicted, s \in Survivors : ShortKeyLeq(e, s)
              /\ \A e \in Evicted, s \in Survivors :
                    (e.priority = s.priority /\ e.timestamp # s.timestamp)
                        => e.timestamp < s.timestamp

\* the store was full of entries of the new entry's priority, with timestamps
\* that differ, and the call evicted the earliest of them
C3_Witness ==
    /\ IsAdd(TRUE)
    /\ Cardinality(Pool) = short_term_capacity + 1
    /\ \A a, b \in Pool : a.priority = b.priority /\ (a # b => a.timestamp # b.timestamp)
    /\ \E e \in Evicted : \A s \in Survivors : e.timestamp < s.timestamp

\* (priority value, access_count, timestamp) of a is no greater than that of b
LongKeyLeq(a, b) ==
    \/ PriorityValue(a.priority) < PriorityValue(b.priority)
    \/ /\ PriorityValue(a.priority) = PriorityValue(b.priority)
       /\ \/ a.access_count < b.access_count
          \/ a.access_count = b.access_count /\ a.timestamp <= b.timestamp

\* C4: an add_memory call that brings the long-term store above its capacity
\* deletes exactly the excess, and no survivor has a smaller (priority value,
\* access_count, timestamp) than an evicted entry.
C4_LongTermEvictionOrder ==
    IsAdd(FALSE) =>
        /\ Survivors \subseteq Pool
        /\ Cardinality(Pool) <= long_term_capacity => Evicted = {}
        /\ Cardinality(Pool) > long_term_capacity =>
              /\ Cardinality(Evicted) = Cardinality(Pool) - long_term_capacity
              /\ \A e \in Evicted, s \in Survivors : LongKeyLeq(e, s)

\* the access count decided: an older entry of the same priority survived the
\* evicted one because it had been fetched
C4_Witness ==
    /\ IsAdd(FALSE)
    /\ Cardinality(Pool) = long_term_capacity + 1
    /\ \E e \in Evicted, s \in Survivors :
          /\ e.priority = s.priority
          /\ s.timestamp < e.timestamp
          /\ s.access_count > e.access_count

-----------------------------------------------------------------------------
(* Claims on consolidate_memories *)

Consolidated == last.op = "consolidate_memories" /\ last.ret = "triggered"

\* the members of the session group of e among the entries handed to compression
GroupOf(e) ==
    {x \in Range(last.args) :
        (IF "session" \in DOMAIN x.context THEN x.context["session"] ELSE "default")
        = (IF "session" \in DOMAIN e.context THEN e.context["session"] ELSE "default")}

IsSummaryFor(s, e) ==
    /\ s.id \notin Ids(last.before.st) \cup Ids(last.before.lt)
    /\ DOMAIN s.context = {"session", "compressed"}
    /\ s.context["session"] =
          (IF "session" \in DOMAIN e.context THEN e.context["session"] ELSE "default")

\* C2: after consolidate_memories ran with its trigger met, no entry that was
\* selected for consolidation is left in the short-term store, and the long-term
\* store holds the entry itself (session group of at most 3) or a synthetic
\* summary entry for its session group.
C2_ConsolidatedLeaveShortTerm ==
    Consolidated =>
        \A e \in Range(last.args) :
            /\ e.id \notin Ids(st)
            /\ IF Cardinality(GroupOf(e)) <= 3
               THEN e.id \in Ids(lt)
               ELSE \E s \in Range(lt) : IsSummaryFor(s, e)

\* C8: when consolidate_memories triggers, it hands to compression exactly
\* floor(0.3 * short_term_capacity) short-term entries, none of them younger
\* than an entry it leaves out, and every entry it leaves out stays in the
\* short-term store with all fields unchanged.
C8_ConsolidationSelectsOldest ==
    Consolidated =>
        LET fed  == Range(last.args)
            rest == Range(last.before.st) \ fed
        IN  /\ Len(last.args) * 10 <= short_term_capacity * 3
            /\ (Len(last.args) + 1) * 10 > short_term_capacity * 3
            /\ Cardinality(fed) = Len(last.args)
            /\ fed \subseteq Range(last.before.st)
            /\ \A a \in fed, b \in rest : a.timestamp <= b.timestamp
            /\ \A b \in rest : b \in Range(st)

\* four entries were handed over, and one that was left out is as old as one
\* of them
C8_Witness ==
    /\ Consolidated
    /\ Len(last.args) = 4
    /\ \E a \in Range(last.args), b \in Range(last.before.st) \ Range(last.args) :
          a.timestamp = b.timestamp
    /\ \E a \in Range(last.args), b \in Range(last.before.st) \ Range(last.args) :
          a.timestamp < b.timestamp

\* C7: consolidate_memories called while the short-term store holds at most
\* 0.8 * short_term_capacity entries (an empty store included) changes nothing:
\* both stores, both indexes, the session, the clock, the id source and the
\* file stay as they were.
C7_ConsolidationNoOp ==
    [][(last'.op = "consolidate_memories" /\ Len(st) * 10 <= short_term_capacity * 8)
          => UNCHANGED <<st, lt, stIndex, ltIndex, short_term_capacity,
                         long_term_capacity, current_session, now, nextId, file>>]_vars

\* the call was skipped on a store one entry below the trigger
C7_Witness ==
    /\ last.op = "consolidate_memories"
    /\ last.ret = "skipped"
    /\ st # <<>>
    /\ (Len(st) + 1) * 10 > short_term_capacity * 8

-----------------------------------------------------------------------------
(* Claims on persistence and on the life of an entry (Spec) *)

\* what load_from_file makes of the document save_to_file would write now, in
\* an instance that was just constructed
Reloaded == Load(<<>>, <<>>, <<>>, <<>>, "fresh", SaveDoc(st, lt, current_session))

\* C5: save_to_file followed by load_from_file into a freshly constructed
\* instance yields the same entries, field by field, each in the store it was
\* in, and the same current_session.
C5_RoundTrip ==
    /\ ~ Reloaded.raised
    /\ Range(Reloaded.st) = Range(st)
    /\ Len(Reloaded.st) = Len(st)
    /\ Range(Reloaded.lt) = Range(lt)
    /\ Len(Reloaded.lt) = Len(lt)
    /\ Reloaded.current_session = current_session

\* a new process loaded a file holding entries of both stores, one of them
\* fetched before the save, and got the first process's session back
C5_Witness ==
    /\ last.op = "load_from_file"
    /\ last.ret = "ok"
    /\ last.before.st = <<>>
    /\ last.before.lt = <<>>
    /\ st # <<>>
    /\ lt # <<>>
    /\ \E e \in Range(st) \cup Range(lt) : e.access_count > 0 /\ e.last_accessed > e.timestamp
    /\ \E e \in Range(lt) : e.tags # <<>>
    /\ current_session = SessionToken(1)

\* an entry is created in exactly one store
C6_CreatedInOneStore ==
    [][last'.op = "add_memory" =>
          /\ ~ (nextId \in Ids(st') /\ nextId \in Ids(lt'))
          /\ nextId \in Ids(st') => last'.args.memory_type = "SHORT_TERM"
          /\ nextId \in Ids(lt') => last'.args.memory_type # "SHORT_TERM"]_vars

\* an entry moves from the short-term to the long-term store only in
\* consolidate_memories
C6_MovedOnlyByConsolidation ==
    [][\A id \in Ids(st) \ Ids(lt) :
          (id \in Ids(lt') /\ id \notin Ids(st')) => last'.op = "consolidate_memories"]_vars

\* an entry leaves a store of an instance only by delete or capacity eviction
C6_LeavesOnlyByDeleteOrEviction ==
    [][(Ids(st) \ Ids(st') # {} \/ Ids(lt) \ Ids(lt') # {})
          => last'.op \in {"add_memory", "consolidate_memories", "__init__"}]_vars

\* an entry that is in the long-term store does not come back to the short-term
\* store
C6_NoReturnToShortTerm ==
    [][\A id \in Ids(lt) \ Ids(st) : id \notin Ids(st')]_vars

\* C6: the per-entry state machine: created in exactly one store; moved from
\* short-term to long-term only by consolidate_memories; leaving a store only
\* by delete or capacity eviction; never back in the short-term store once it
\* has been in the long-term store.
C6_EntryLifecycle ==
    /\ C6_CreatedInOneStore
    /\ C6_MovedOnlyByConsolidation
    /\ C6_LeavesOnlyByDeleteOrEviction
    /\ C6_NoReturnToShortTerm

-----------------------------------------------------------------------------
(* Claims on retrieval (SpecQuery) *)

\* a list of entries is in (priority value, access_count) descending order
ByPriorityThenAccess(entries) ==
    \A i \in 1..(Len(entries) - 1) :
        \/ PriorityValue(entries[i].priority) > PriorityValue(entries[i + 1].priority)
        \/ /\ entries[i].priority = entries[i + 1].priority
           /\ entries[i].access_count >= entries[i + 1].access_count

\* the entries of a store whose content or tags hold the query, in insertion order
Matching(mem, query) ==
    SelectSeq(mem, LAMBDA e :
        \/ Contains(LowerStr(e.content), LowerStr(query))
        \/ \E i \in 1..Len(e.tags) : Contains(LowerStr(e.tags[i]), LowerStr(query)))

\* what retrieve_memories(query, include_short_term, limit) returned
RetrievedOk(query, include_short_term, limit, result) ==
    LET short == SelectSeq(result, LAMBDA r : r.store = "short_term")
        long  == SelectSeq(result, LAMBDA r : r.store = "long_term")
        long_term_memories == RetrieveRelevant(lt, query, <<>>, limit, now)
        short_term_memories == IF include_short_term
                               THEN Search(st, query, limit \div 2) ELSE <<>>
        memories == Ref("long_term", long_term_memories)
                    \o Ref("short_term", short_term_memories)
    IN  /\ Len(result) <= limit
        /\ Len(short) <= limit \div 2
        /\ ~ include_short_term => short = <<>>
        /\ Len(long_term_memories) <= limit
        /\ ByPriorityThenAccess([i \in 1..Len(result) |-> result[i].entry])
        /\ Len(result) = Min(limit, Len(memories))
        /\ \A i \in 1..Len(result) :
              /\ result[i] \in Range(memories)
              /\ \A j \in 1..Len(memories) :
                    (memories[j] \notin Range(result)) =>
                        \/ PriorityValue(memories[j].entry.priority)
                              < PriorityValue(result[i].entry.priority)
                        \/ /\ memories[j].entry.priority = result[i].entry.priority
                           /\ memories[j].entry.access_count <= result[i].entry.access_count
        \* the re-sort is stable: equal keys keep the order of the concatenation
        /\ \A i, j \in 1..Len(result) :
              (i < j /\ result[i].entry.priority = result[j].entry.priority
                     /\ result[i].entry.access_count = result[j].entry.access_count)
                 => \E a, b \in 1..Len(memories) :
                       a < b /\ memories[a] = result[i] /\ memories[b] = result[j]

\* the case of the claim's last sentence: nothing in the long-term store,
\* limit 2, several matching short-term entries, all of one priority
SeveralShortMatches(query, include_short_term, limit) ==
    /\ lt = <<>>
    /\ limit = 2
    /\ include_short_term
    /\ Len(Matching(st, query)) >= 2
    /\ \A i, j \in 1..Len(Matching(st, query)) :
          Matching(st, query)[i].priority = Matching(st, query)[j].priority

StartsWithEarliestMatch(query, result) ==
    /\ result # <<>>
    /\ result[1].entry = Matching(st, query)[1]

ClaimedScore(query, memory, context, t) ==
    LET overlap   == Cardinality(Range(Split(LowerStr(query)))
                                 \cap Range(Split(LowerStr(memory.content))))
        recency   == IF t - memory.timestamp >= DecayPeriod
                     THEN 0 ELSE DecayPeriod - (t - memory.timestamp)
        frequency == IF memory.access_count >= 10 THEN 10 ELSE memory.access_count
        matches   == Cardinality({k \in DOMAIN context \cap DOMAIN memory.context :
                                     context[k] = memory.context[k]})
    IN  overlap * 30 * DecayPeriod + PriorityValue(memory.priority) * 20 * DecayPeriod
        + recency * 20 + frequency * DecayPeriod + matches * 20 * DecayPeriod

C11_RetrieveRelevantDeterministic ==
    [][last'.op = "retrieve_relevant" =>
          /\ UNCHANGED <<st, lt, stIndex, ltIndex, now>>
          /\ (last.op = "retrieve_relevant" /\ last'.args = last.args)
                => last'.ret = last.ret]_vars

\* a call ranked two candidates by score, against the order of search, with the
\* frequency term of one of them above zero
C11_Witness ==
    /\ last.op = "retrieve_relevant"
    /\ Len(last.ret) >= 2
    /\ last.ret # Search(lt, last.args[1], 2 * last.args[3])
    /\ \E e \in Range(last.ret) : e.access_count > 0

-----------------------------------------------------------------------------
(* Claims on InMemoryStore (SpecStore) *)

\* the store a call on InMemoryStore named, before and after the step
StoreOf(name, short, long) == IF name = "short_term" THEN short ELSE long

\* C12: get(id) on a present id returns that entry with access_count one
\* higher and last_accessed at the current time, and changes no other entry;
\* get on an unknown id returns the absent result and changes nothing.
C12_Get ==
    [][last'.op = "get" =>
          LET name == last'.args[1]
              id   == last'.args[2]
              mem  == StoreOf(name, st, lt)
              mem2 == StoreOf(name, st', lt')
          IN  /\ StoreOf(name, lt, st) = StoreOf(name, lt', st')
              /\ UNCHANGED <<stIndex, ltIndex, current_session, nextId, file>>
              /\ IF \E i \in 1..Len(mem) : mem[i].id = id
                 THEN /\ last'.ret.id = id
                      /\ last'.ret \in Range(mem2)
                      /\ Len(mem2) = Len(mem)
                      /\ \A i \in 1..Len(mem) :
                            IF mem[i].id = id
                            THEN /\ mem2[i].access_count = mem[i].access_count + 1
                                 /\ mem2[i].last_accessed = now'
                                 /\ mem2[i] = last'.ret
                                 /\ [mem2[i] EXCEPT !.access_count = 0, !.last_accessed = 0]
                                       = [mem[i] EXCEPT !.access_count = 0, !.last_accessed = 0]
                            ELSE mem2[i] = mem[i]
                 ELSE /\ last'.ret = <<>>
                      /\ mem2 = mem
                      /\ now' = now]_vars

\* a get fetched one of two stored entries, after the clock had moved on
C12_Witness ==
    /\ last.op = "get"
    /\ last.ret # <<>>
    /\ last.ret.last_accessed > last.ret.timestamp
    /\ Len(st) >= 2
    /\ \E e \in Range(st) : e.access_count = 0

\* the position of an entry in the store's dict
PositionIn(mem, e) == CHOOSE i \in 1..Len(mem) : mem[i] = e

\* a ranks before b in the result of search
SearchRanksBefore(mem, a, b) ==
    \/ PriorityValue(a.priority) > PriorityValue(b.priority)
    \/ /\ a.priority = b.priority
       /\ \/ a.access_count > b.access_count
          \/ a.access_count = b.access_count /\ PositionIn(mem, a) < PositionIn(mem, b)

DeadIds(mem, index) ==
    {id \in UNION {Range(index[w]) : w \in DOMAIN index} : id \notin Ids(mem)}

C15_Delete ==
    [][last'.op = "delete" =>
          LET name == last'.args[1]
              id   == last'.args[2]
              mem  == StoreOf(name, st, lt)
              mem2 == StoreOf(name, st', lt')
          IN  /\ last'.ret = (\E i \in 1..Len(mem) : mem[i].id = id)
              /\ mem2 = SelectSeq(mem, LAMBDA e : e.id # id)
              /\ StoreOf(name, lt, st) = StoreOf(name, lt', st')
              /\ UNCHANGED <<stIndex, ltIndex, current_session, now, nextId, file>>]_vars

\* a second delete of an id returned false, with entries on both sides of the
\* deleted one still stored
C15_Witness ==
    /\ last.op = "delete"
    /\ last.ret = FALSE
    /\ last.args[2] \in DeadIds(st, stIndex)
    /\ \E a, b \in Ids(st) : a < last.args[2] /\ last.args[2] < b

-----------------------------------------------------------------------------
(* Claims on the bookkeeping of an entry (Spec) *)

\* C13: in every reachable state every stored entry has last_accessed >=
\* timestamp and access_count >= 0, and an entry no get has fetched (its
\* access_count is 0) has last_accessed = timestamp.
C13_AccessBookkeeping ==
    \A e \in Range(st) \cup Range(lt) :
        /\ e.last_accessed >= e.timestamp
        /\ e.access_count >= 0
        /\ e.access_count = 0 => e.last_accessed = e.timestamp

\* after a save, a get fetched a long-term entry later than it was created,
\* while another stored entry was never fetched
C13_Witness ==
    /\ last.op = "get"
    /\ last.ret # <<>>
    /\ last.ret.last_accessed > last.ret.timestamp
    /\ \E e \in Range(st) \cup Range(lt) : e.access_count = 0
    /\ file # NoFile

-----------------------------------------------------------------------------
(* Claims on the routing of add_memory (SpecRoute) *)

\* what add_memory did to the store that received the entry: the entry went
\* in, the store's capacity manager ran, and nothing else came in
Received(mem, mem2, capacity, entry) ==
    /\ Range(mem2) \subseteq Range(mem) \cup {entry}
    /\ Len(mem2) = Min(capacity, Len(mem) + 1)
    /\ Len(mem) < capacity => entry \in Range(mem2)

\* C16: add_memory of a short_term entry inserts it into the short-term store
\* only and runs the short-term capacity manager only; with any other memory
\* type it inserts into the long-term store only and runs the long-term
\* capacity manager only; the other store is left as it was.
C16_Routing ==
    [][last'.op = "add_memory" =>
          LET entry == last'.args
          IN  /\ entry.memory_type \in {"SHORT_TERM", "LONG_TERM", "WORKING", "EPISODIC",
                                        "SEMANTIC", "PROCEDURAL"}
              /\ IF entry.memory_type = "SHORT_TERM"
                 THEN /\ Received(st, st', short_term_capacity, entry)
                      /\ lt' = lt /\ ltIndex' = ltIndex
                      /\ entry.id \notin Ids(lt')
                 ELSE /\ Received(lt, lt', long_term_capacity, entry)
                      /\ st' = st /\ stIndex' = stIndex
                      /\ entry.id \notin Ids(st')]_vars

\* a short-term entry was added while the long-term store, filled by a load,
\* held more than its capacity, and the long-term store still does
C16_Witness ==
    /\ last.op = "add_memory"
    /\ last.args.memory_type = "SHORT_TERM"
    /\ Len(last.before.lt) > long_term_capacity
    /\ lt = last.before.lt
    /\ \E e \in Range(lt) : e.memory_type \notin {"SHORT_TERM", "LONG_TERM"}

-----------------------------------------------------------------------------
(* Claims on MemorySummarizer (SpecCompress) *)

\* the group an entry falls in: context['session'], 'default' when absent
ClaimedGroup(e) ==
    IF "session" \in DOMAIN e.context THEN e.context["session"] ELSE "default"

\* the output for one group of more than 3: a new summary entry, then two
\* members of the group that no member left out outranks
GroupCompressed(memories, group, key, out) ==
    /\ Len(out) = 3
    /\ out[1].id \notin Ids(memories)
    /\ out[1].memory_type = "LONG_TERM"
    /\ out[1].priority = "MEDIUM"
    /\ DOMAIN out[1].context = {"session", "compressed"}
    /\ out[1].context["session"] = key
    /\ out[1].context["compressed"] = "True"
    /\ out[2] \in Range(group) /\ out[3] \in Range(group) /\ out[2] # out[3]
    /\ \A m \in Range(group) \ {out[2], out[3]} :
          /\ PriorityValue(m.priority) <= PriorityValue(out[2].priority)
          /\ PriorityValue(m.priority) <= PriorityValue(out[3].priority)

\* C17: compress_memories returns an input of at most 3 entries unchanged;
\* otherwise it groups by context['session'] ('default' when absent), passes a
\* group of at most 3 through unmodified and replaces a group of more than 3
\* by one new summary entry (long_term, medium, fresh id, context {session,
\* compressed: true}) plus the group's 2 highest-priority entries; so 4
\* entries of one session give 3.
C17_CompressMemories ==
    last.op = "compress_memories" =>
        LET memories == last.args
            result   == last.ret
            keys     == {ClaimedGroup(memories[i]) : i \in 1..Len(memories)}
            group(k) == SelectSeq(memories, LAMBDA m : ClaimedGroup(m) = k)
            out(k)   == SelectSeq(result, LAMBDA m : ClaimedGroup(m) = k)
        IN  IF Len(memories) <= 3 THEN result = memories
            ELSE /\ {ClaimedGroup(result[i]) : i \in 1..Len(result)} = keys
                 /\ \A k \in keys :
                       IF Len(group(k)) <= 3 THEN out(k) = group(k)
                       ELSE GroupCompressed(memories, group(k), k, out(k))
                 /\ (Len(memories) = 4 /\ Cardinality(keys) = 1) => Len(result) = 3

\* five entries, four of one session with three priorities among them and one
\* of another session, came back as four
C17_Witness ==
    /\ last.op = "compress_memories"
    /\ Len(last.args) = 5
    /\ Len(last.ret) = 4
    /\ Cardinality({last.args[i].priority : i \in 1..5}) = 3
    /\ \E i \in 1..5 : "session" \notin DOMAIN last.args[i].context
    /\ last.ret[4] \in Range(last.args)

-----------------------------------------------------------------------------
(* Claims on summarize (SpecSummarize) *)

\* the pieces are those of text.split('. '): joined by '. ' they give the
\* text, and none of them holds '. '
IsSplitOn(text, pieces) ==
    /\ Join(pieces, <<".", " ">>) = text
    /\ \A i \in 1..Len(pieces) : ~ Contains(pieces[i], <<".", " ">>)

\* C18: summarize returns its input unchanged when len(content) <= max_length
\* or the content splits on '. ' into at most 2 sentences, and otherwise the
\* first sentence + '. [...] ' + the last sentence + '.'; summarizing the
\* result again gives the result.
C18_Summarize ==
    last.op = "summarize" =>
        LET content    == last.args[1]
            max_length == last.args[2]
            result     == last.ret
            sentences  == SplitSep(content, <<".", " ">>)
        IN  /\ IsSplitOn(content, sentences)
            /\ IF Len(content) <= max_length \/ Len(sentences) <= 2
               THEN result = content
               ELSE result = sentences[1] \o <<".", " ", "[", ".", ".", ".", "]", " ">>
                             \o sentences[Len(sentences)] \o <<".">>
            /\ Summarize(result, max_length) = result

\* a text of three sentences, longer than max_length, was cut to its first and
\* last sentence, and the result is still longer than max_length
C18_Witness ==
    /\ last.op = "summarize"
    /\ last.ret # last.args[1]
    /\ Len(last.ret) > last.args[2]
    /\ Len(SplitSep(last.args[1], <<".", " ">>)) = 3
    /\ SplitSep(last.args[1], <<".", " ">>)[1] # <<>>
    /\ last.args[2] > 0

-----------------------------------------------------------------------------
(* Claims on load_from_file *)

\* C19: load_from_file on a path that holds no file raises no error and
\* leaves both stores and current_session as they were before the call.
C19_LoadMissingFile ==
    [][(last'.op = "load_from_file" /\ file = NoFile) =>
          /\ last'.ret = "FileNotFound"
          /\ UNCHANGED <<st, lt, stIndex, ltIndex, current_session>>]_vars

\* a load found no file while both stores held entries, and they still do
C19_Witness ==
    /\ last.op = "load_from_file"
    /\ last.ret = "FileNotFound"
    /\ file = NoFile
    /\ st # <<>>
    /\ lt # <<>>

\* a persisted entry with an unknown memory_type or priority value, or
\* lacking a required field
MalformedEntry(d) ==
    \/ \E f \in {"id", "content", "memory_type", "priority", "timestamp"} : f \notin DOMAIN d
    \/ d.memory_type \notin {"short_term", "long_term", "working", "episodic", "semantic",
                             "procedural"}
    \/ d.priority \notin {1, 2, 3, 4}

MalformedDocument(doc) ==
    \/ \E i \in 1..Len(doc.short_term) : MalformedEntry(doc.short_term[i])
    \/ \E i \in 1..Len(doc.long_term) : MalformedEntry(doc.long_term[i])

\* C20: load_from_file of a persisted document that holds an entry with an
\* unknown memory_type or priority value, or without a required field, ends
\* in an error; it never completes normally.
C20_LoadMalformed ==
    (last.op = "load_from_file" /\ file # NoFile /\ MalformedDocument(file[1]))
        => last.ret = "raised"

\* a load raised on the second long-term entry of the document, which lacks a
\* required field, after it had put the entries before it into the stores
C20_Witness ==
    /\ last.op = "load_from_file"
    /\ last.ret = "raised"
    /\ file # NoFile
    /\ Len(file[1].long_term) = 2
    /\ ~ MalformedEntry(file[1].long_term[1])
    /\ "timestamp" \notin DOMAIN file[1].long_term[2]
    /\ Len(lt) > Len(last.before.lt)

-----------------------------------------------------------------------------
(* Claims on what the operations keep *)

\* C21: after every public mutating operation, consolidate_memories and
\* load_from_file included, the short-term store holds at most
\* short_term_capacity entries and the long-term store at most
\* long_term_capacity.
C21_CapacityAfterEveryOperation ==
    /\ Len(st) <= short_term_capacity
    /\ Len(lt) <= long_term_capacity

\* C22: consolidate_memories destroys no entry: every id that was in the
\* short-term or the long-term store before the call is in one of them after
\* it, with the content, priority and timestamp it had.
C22_ConsolidationKeepsEntries ==
    last.op = "consolidate_memories" =>
        \A e \in Range(last.before.st) \cup Range(last.before.lt) :
            \E k \in Range(st) \cup Range(lt) :
                /\ k.id = e.id
                /\ k.content = e.content
                /\ k.priority = e.priority
                /\ k.timestamp = e.timestamp

\* a consolidation summarized a batch of four, moved two of them to long-term
\* and left the other two where they were
C22_Witness ==
    /\ last.op = "consolidate_memories"
    /\ last.ret = "triggered"
    /\ Len(last.args) = 4
    /\ Cardinality(Range(last.args) \cap Range(st)) = 2
    /\ Cardinality({e.id : e \in Range(last.args)} \cap Ids(lt)) = 2
    /\ \E k \in Range(lt) : "compressed" \in DOMAIN k.context

\* C23: when add_memory returns an id, the entry with that id is in the store
\* it was routed to.
C23_AddedEntryPresent ==
    last.op = "add_memory" =>
        last.ret \in Ids(IF last.args.memory_type = "SHORT_TERM" THEN st ELSE lt)

\* C26: a load_from_file that ends in an error leaves the memory state as it
\* was: no entry of the document is in a store that did not hold it, and
\* current_session is the previous one.
C26_FailedLoadChangesNothing ==
    [][(last'.op = "load_from_file" /\ last'.ret = "raised") =>
          UNCHANGED <<st, lt, current_session>>]_vars

\* C24: in every state one instance reaches by add_memory,
\* consolidate_memories, save_to_file and load_from_file of files it saved
\* itself, no entry id is in the short-term and in the long-term store at once.
C24_NoIdInBothStores == Ids(st) \cap Ids(lt) = {}

\* C25: for every short_term_capacity >= 1, a consolidate_memories called
\* where its trigger holds leaves the short-term store strictly smaller (so
\* that repeating it reaches at most 0.8 * short_term_capacity entries).
C25_ConsolidationShrinks ==
    (last.op = "consolidate_memories"
       /\ Len(last.before.st) * 10 > short_term_capacity * 8)
        => Len(st) < Len(last.before.st)

-----------------------------------------------------------------------------
(* Claims on the query operations (SpecRead) *)

QueryOperations == {"search", "retrieve_relevant", "retrieve_memories", "get_recent_memories"}

\* C27: search, retrieve_relevant, retrieve_memories and get_recent_memories
\* are read-only: they change neither the entries a store holds, nor an
\* entry's access_count, last_accessed, memory_type or priority, nor the
\* keyword index.
C27_QueriesReadOnly ==
    [][last'.op \in QueryOperations =>
          /\ Ids(st') = Ids(st) /\ Ids(lt') = Ids(lt)
          /\ \A store \in {"short_term", "long_term"} :
                LET mem  == StoreOf(store, st, lt)
                    mem2 == StoreOf(store, st', lt')
                IN  \A e \in Range(mem) : \E k \in Range(mem2) :
                       /\ k.id = e.id
                       /\ k.access_count = e.access_count
                       /\ k.last_accessed = e.last_accessed
                       /\ k.memory_type = e.memory_type
                       /\ k.priority = e.priority
          /\ UNCHANGED <<stIndex, ltIndex>>]_vars

\* retrieve_memories returned a short-term and a long-term entry, one of them
\* fetched once before, and both are in their stores as they were
C27_Witness ==
    /\ last.op = "retrieve_memories"
    /\ Len(last.ret) = 2
    /\ {last.ret[1].store, last.ret[2].store} = {"short_term", "long_term"}
    /\ \E i \in 1..2 : last.ret[i].entry.access_count = 1
    /\ \A i \in 1..2 : last.ret[i].entry \in Range(StoreOf(last.ret[i].store, st, lt))

-----------------------------------------------------------------------------
(* Claims on the keyword index (SpecIndex) *)

\* the lower-cased whitespace tokens of an entry's content
Tokens(e) == Range(Split(LowerStr(e.content)))

IndexCovers(mem, index) ==
    \A e \in Range(mem) : \A w \in Tokens(e) :
        w \in DOMAIN index /\ e.id \in Range(index[w])

IndexHasNoDuplicates(index) ==
    \A w \in DOMAIN index : \A i, j \in 1..Len(index[w]) :
        index[w][i] = index[w][j] => i = j

\* C28: with every store operation one atomic step, in every reachable state
\* the keyword index lists every stored entry's id under every lower-cased
\* whitespace token of its content, lists no id twice under a token, and the
\* ids of deleted entries that stay listed are never returned by get or search.
C28_IndexCoversLiveEntries ==
    /\ IndexCovers(st, stIndex) /\ IndexCovers(lt, ltIndex)
    /\ IndexHasNoDuplicates(stIndex) /\ IndexHasNoDuplicates(ltIndex)
    /\ last.op = "get" =>
          LET mem == StoreOf(last.args[1], st, lt)
              was == StoreOf(last.args[1], last.before.st, last.before.lt)
          IN  /\ last.ret # <<>> => last.ret \in Range(mem)
              /\ last.args[2] \notin Ids(was) => last.ret = <<>>
    /\ last.op = "search" =>
          Range(last.ret) \subseteq Range(StoreOf(last.args[1], st, lt))

\* a get of a deleted id that is still listed returned nothing, while the
\* store holds an entry whose content repeats a token in another case and an
\* entry listed under the same token
C28_Witness ==
    /\ last.op = "get"
    /\ last.ret = <<>>
    /\ last.args[2] \in DeadIds(st, stIndex)
    /\ \E e \in Range(st) : Len(Split(LowerStr(e.content))) > Cardinality(Tokens(e))
    /\ \E w \in DOMAIN stIndex : Len(stIndex[w]) >= 2

-----------------------------------------------------------------------------
(* Claims on concurrent callers (SpecRace) *)

\* C29: with each add run as one atomic step (under a mutex), whenever no
\* caller is inside add the index lists every stored entry under each of its
\* tokens, once; without mutual exclusion two adds interleaved statement by
\* statement can leave a stored entry's token out of the index (C29_Witness).
C29_AtomicAddKeepsIndex ==
    (/\ threads # <<>>
     /\ \A i \in 1..Len(threads) : threads[i].exclusive /\ ~ Inside(threads[i]))
    => IndexCovers(st, stIndex) /\ IndexHasNoDuplicates(stIndex)

\* both adds ran without a mutex and returned, both entries are stored, and a
\* token of one of them does not list it: the later index[word] = [] of one
\* caller dropped the id the other had appended
C29_Witness ==
    /\ Len(threads) = 2
    /\ \A i \in 1..2 : /\ ~ threads[i].exclusive
                      /\ threads[i].pc = "done"
                      /\ threads[i].entry \in Range(st)
    /\ ~ IndexCovers(st, stIndex)

-----------------------------------------------------------------------------
(* Claims on SimpleMemorySystem (SpecSimple) *)

\* get_stats()["total_count"]
TotalCount(sys) == Len(sys.short_term_memories) + Len(sys.long_term_memories)

SimpleIds(sys) == Ids(sys.short_term_memories) \cup Ids(sys.long_term_memories)

\* C30: every add_memory call of SimpleMemorySystem returns an id no stored
\* entry has and raises the total entry count by exactly one, replacing
\* nothing, also when it reads the same millisecond as an earlier call; a
\* process_message, which adds two or three entries, raises it by that many.
C30_AddStoresNewEntry ==
    [][/\ last'.op = "SimpleMemorySystem.add_memory" =>
             /\ last'.ret \notin SimpleIds(simple)
             /\ TotalCount(simple') = TotalCount(simple) + 1
       /\ last'.op = "process_message" =>
             TotalCount(simple') = TotalCount(simple) +
                 (IF StatesPreference(last'.args[1]) THEN 3 ELSE 2)]_vars

====
